---- MODULE Spec2Model ----
(***************************************************************************)
(* Model of diagnostics/visualize.py: the LED position visualizer.         *)
(*                                                                         *)
(* One run of main() is a behaviour: the command line and the input file   *)
(* are fixed by Init, and main proceeds load -> statistics -> rendering.   *)
(* Every function of the script is an operator computing what the function *)
(* returns, prints and draws, or the exception it raises; the actions are  *)
(* the three statements of main that call them.                            *)
(*                                                                         *)
(* Numbers: coordinates are integers; a confidence is an integer number of *)
(* tenths (9 is 0.9); a quotient a/b is kept exact as the pair <<a, b>>.   *)
(***************************************************************************)
EXTENDS Integers, Sequences, FiniteSets

\* Longest positions list of an input document of Spec.
MaxLen == 2

\* Longest positions list of an input document of SpecStats.
MaxStatsLen == 5

\* def draw_cone_outline(ax, height, num_points=50)
DefaultNumPoints == 50

\* The divisor of num_points // 8 in draw_cone_outline.
ConeLineDivisor == 8

\* The literal 0.8 of print_statistics, in tenths.
HighConfidence == 8

VARIABLES
    args,       \* argparse namespace: confidence, save, projections, stats
    file,       \* the input file named on the command line
    pc,         \* where main is: "load", "stats", "render", "done", "failed"
    error,      \* the exception that ended the run, "none" if none
    positions,  \* main's local `positions`
    metadata,   \* main's local `metadata`
    stdout,     \* the lines printed so far
    calls,      \* the functions entered and left so far, in order
    files,      \* the paths written by plt.savefig
    fig         \* what the renderer drew

vars == <<args, file, pc, error, positions, metadata, stdout, calls, files, fig>>

-----------------------------------------------------------------------------
(* Python values *)

\* An optional value: <<>> is None, <<v>> is v.
None == <<>>

Some(v) == <<v>>

\* Truth value of an optional string: None and "" are false.
Truthy(opt) == opt # None /\ opt[1] # ""

\* The outcome of a call: a returned value or a raised exception.
Return(v) == [raised |-> "none", value |-> v]

Raise(e) == [raised |-> e, value |-> <<>>]

\* One printed line: what it is, and the numbers it shows.
Line(tag, vals) == [tag |-> tag, vals |-> vals]

\* [f(s[1]), ..., f(s[n])] for the field f of the records of s.
Field(s, f) == [i \in 1..Len(s) |-> s[i][f]]

SeqToSet(s) == {s[i] : i \in 1..Len(s)}

RECURSIVE SeqSum(_)
SeqSum(s) == IF s = <<>> THEN 0 ELSE Head(s) + SeqSum(Tail(s))

\* range(start, stop, step) for a positive step.
RECURSIVE PyRange(_, _, _)
PyRange(start, stop, step) ==
    IF start >= stop THEN <<>>
    ELSE <<start>> \o PyRange(start + step, stop, step)

\* Variant: a division guarded against a zero divisor.
PyDivGuarded(a, b) == IF b = 0 THEN Return(<<0, 1>>) ELSE Return(<<a, b>>)

\* a / b: true division, exact, or ZeroDivisionError.
PyDiv(a, b) == IF b = 0 THEN Raise("ZeroDivisionError") ELSE Return(<<a, b>>)

\* min(xs) and np.min(xs): ValueError on an empty list.
PyMin(xs) ==
    IF Len(xs) = 0 THEN Raise("ValueError")
    ELSE Return(CHOOSE m \in SeqToSet(xs) : \A v \in SeqToSet(xs) : m <= v)

\* max(xs) and np.max(xs): ValueError on an empty list.
PyMax(xs) ==
    IF Len(xs) = 0 THEN Raise("ValueError")
    ELSE Return(CHOOSE m \in SeqToSet(xs) : \A v \in SeqToSet(xs) : m >= v)

\* Variant: min and max with a default of 0 for an empty list.
ExtentOrZero(xs) ==
    IF Len(xs) = 0 THEN Return(<<0, 0>>)
    ELSE Return(<<PyMin(xs).value, PyMax(xs).value>>)

\* The pair min(xs), max(xs) formatted by one print.
Extent(xs) ==
    IF PyMin(xs).raised # "none" THEN PyMin(xs)
    ELSE IF PyMax(xs).raised # "none" THEN PyMax(xs)
    ELSE Return(<<PyMin(xs).value, PyMax(xs).value>>)

-----------------------------------------------------------------------------
(* load_led_positions *)

RequiredKeys == {"positions", "total_leds", "tree_height"}

OptionalKeys == {"num_cameras", "num_observed", "num_predicted"}

\* Variant: a default of 1.
GetOrOne(data, key) == IF key \in data.keys THEN data[key] ELSE 1

\* data.get(key, 0)
GetOrZero(data, key) == IF key \in data.keys THEN data[key] ELSE 0

\* The metadata dict built from the parsed document.
BuildMetadata(data) ==
    [total_leds   |-> data.total_leds,
     tree_height  |-> data.tree_height,
     num_cameras  |-> GetOrZero(data, "num_cameras"),
     num_observed |-> GetOrZero(data, "num_observed"),
     num_predicted |-> GetOrZero(data, "num_predicted")]

\* data[key] raises KeyError for an absent key; the keys are read in this order.
MissingKey(data) ==
    IF "positions" \notin data.keys THEN Some("positions")
    ELSE IF "total_leds" \notin data.keys THEN Some("total_leds")
    ELSE IF "tree_height" \notin data.keys THEN Some("tree_height")
    ELSE None

load_led_positions(f) ==
    IF ~f.readable THEN Raise("OSError")
    ELSE IF MissingKey(f.data) # None THEN Raise("KeyError")
    ELSE Return([positions |-> f.data.positions, metadata |-> BuildMetadata(f.data)])

-----------------------------------------------------------------------------
(* The observed / predicted split *)

\* [p for p in positions if not p['predicted']]
Observed(ps) == SelectSeq(ps, LAMBDA p : ~p.predicted)

\* Variant: the filter left out.
PredictedUnfiltered(ps) == ps

\* [p for p in positions if p['predicted']]
Predicted(ps) == SelectSeq(ps, LAMBDA p : p.predicted)

-----------------------------------------------------------------------------
(* Saving or showing the figure *)

\* Variant: the figure is shown whether or not it is saved.
SaveThenShow(save_path, message) ==
    IF Truthy(save_path)
    THEN [calls |-> <<"plt.savefig", "plt.show">>, written |-> {save_path[1]},
          lines |-> <<Line(message, <<>>)>>]
    ELSE [calls |-> <<"plt.show">>, written |-> {}, lines |-> <<>>]

\* The tail of both renderers: savefig and a message, or show.
SaveOrShow(save_path, message) ==
    IF Truthy(save_path)
    THEN [calls |-> <<"plt.savefig">>, written |-> {save_path[1]},
          lines |-> <<Line(message, <<>>)>>]
    ELSE [calls |-> <<"plt.show">>, written |-> {}, lines |-> <<>>]

-----------------------------------------------------------------------------
(* draw_cone_outline *)

draw_cone_outline(height, num_points) ==
    [base_radius |-> <<height * 25, 100>>,
     top_radius  |-> <<height * 25, 1000>>,
     circles     |-> <<[z |-> 0, samples |-> num_points],
                       [z |-> height, samples |-> num_points]>>,
     segments    |-> LET r == PyRange(0, num_points, num_points \div ConeLineDivisor)
                     IN [k \in 1..Len(r) |-> [bottom |-> r[k], top |-> r[k]]]]

NoCone == [base_radius |-> <<0, 1>>, top_radius |-> <<0, 1>>,
           circles |-> <<>>, segments |-> <<>>]

-----------------------------------------------------------------------------
(* visualize_3d *)

Scatter(color, label, pts) == [color |-> color, label |-> label, pts |-> pts]

Points3(ps) == [i \in 1..Len(ps) |-> <<ps[i].x, ps[i].y, ps[i].z>>]

visualize_3d(ps, md, show_confidence, save_path) ==
    LET observed  == Observed(ps)
        predicted == Predicted(ps)
        out       == SaveOrShow(save_path, "Saved visualization")
    IN [fig |->
          [kind      |-> "3d",
           observed  |-> observed,
           predicted |-> predicted,
           flags     |-> <<>>,
           scatters  |->
               <<Scatter(IF show_confidence THEN "viridis" ELSE "blue",
                         "Observed", Points3(observed))>>
               \o (IF predicted # <<>>
                   THEN <<Scatter("red", "Predicted", Points3(predicted))>>
                   ELSE <<>>),
           obs_conf  |-> IF show_confidence THEN Field(observed, "confidence") ELSE <<>>,
           colorbar  |-> show_confidence,
           cone      |-> draw_cone_outline(md.tree_height, DefaultNumPoints),
           title     |-> <<md.total_leds, md.num_observed, md.num_predicted>>,
           zlim      |-> <<0, md.tree_height>>],
        calls |-> <<"visualize_3d", "draw_cone_outline">> \o out.calls,
        written |-> out.written,
        lines |-> out.lines]

-----------------------------------------------------------------------------
(* visualize_2d_projections *)

\* [a[i] for i in range(len(a)) if keep[i]] paired with the same filter of b.
Panel(a, b, keep) ==
    LET idx == SelectSeq([i \in 1..Len(a) |-> i], LAMBDA i : keep[i])
    IN [k \in 1..Len(idx) |-> <<a[idx[k]], b[idx[k]]>>]

visualize_2d_projections(ps, md, save_path) ==
    LET x == Field(ps, "x")
        y == Field(ps, "y")
        z == Field(ps, "z")
        observed == [i \in 1..Len(ps) |-> ~ps[i].predicted]
        hidden   == [i \in 1..Len(ps) |-> ~observed[i]]
        out      == SaveOrShow(save_path, "Saved projections")
    IN [fig |->
          [kind      |-> "2d",
           observed  |-> <<>>,
           predicted |-> <<>>,
           flags     |-> observed,
           scatters  |->
               <<Scatter("blue", "Observed",  Panel(x, y, observed)),
                 Scatter("red",  "Predicted", Panel(x, y, hidden)),
                 Scatter("blue", "",          Panel(x, z, observed)),
                 Scatter("red",  "",          Panel(x, z, hidden)),
                 Scatter("blue", "",          Panel(y, z, observed)),
                 Scatter("red",  "",          Panel(y, z, hidden))>>,
           obs_conf  |-> <<>>,
           colorbar  |-> FALSE,
           cone      |-> NoCone,
           title     |-> <<md.total_leds>>,
           zlim      |-> <<>>],
        calls |-> <<"visualize_2d_projections">> \o out.calls,
        written |-> out.written,
        lines |-> out.lines]

NoFigure ==
    [kind |-> "none", observed |-> <<>>, predicted |-> <<>>, flags |-> <<>>,
     scatters |-> <<>>, obs_conf |-> <<>>, colorbar |-> FALSE, cone |-> NoCone,
     title |-> <<>>, zlim |-> <<>>]

-----------------------------------------------------------------------------
(* print_statistics *)

\* One print statement: the lines it writes, or the exception raised while its
\* arguments are evaluated (and then it writes nothing).
Say(tag, vals) == [raised |-> "none", lines |-> <<Line(tag, vals)>>]

\* A print whose format string holds the call result r.
Printed(tag, vals, r) ==
    IF r.raised # "none" THEN [raised |-> r.raised, lines |-> <<>>]
    ELSE Say(tag, vals \o r.value)

\* Statements in sequence: what is printed up to the first one that raises.
RECURSIVE Sequentially(_)
Sequentially(stmts) ==
    IF stmts = <<>> THEN [raised |-> "none", lines |-> <<>>]
    ELSE IF Head(stmts).raised # "none"
         THEN [raised |-> Head(stmts).raised, lines |-> Head(stmts).lines]
         ELSE LET rest == Sequentially(Tail(stmts))
              IN [raised |-> rest.raised, lines |-> Head(stmts).lines \o rest.lines]

\* Variant: the block is not guarded.
ReportsConfidenceAlways(observed) == TRUE

\* if observed:
ReportsConfidence(observed) == observed # <<>>

\* Variant: c >= 0.8.
HighCountInclusive(confidences) ==
    Cardinality({i \in 1..Len(confidences) : confidences[i] >= HighConfidence})

\* sum(1 for c in confidences if c > 0.8)
HighCount(confidences) ==
    Cardinality({i \in 1..Len(confidences) : confidences[i] > HighConfidence})

\* The "Confidence (observed LEDs)" block.
ConfidenceBlock(observed) ==
    IF ReportsConfidence(observed)
    THEN LET confidences == Field(observed, "confidence")
             high == HighCount(confidences)
         IN Sequentially(<<
                Say("confidence", <<>>),
                Say("mean", <<SeqSum(confidences), Len(confidences)>>),
                Printed("min", <<>>, LET m == PyMin(confidences) IN
                    IF m.raised # "none" THEN m ELSE Return(<<m.value>>)),
                Printed("max", <<>>, LET m == PyMax(confidences) IN
                    IF m.raised # "none" THEN m ELSE Return(<<m.value>>)),
                Printed("high", <<high>>, PyDiv(100 * high, Len(confidences)))>>)
    ELSE Sequentially(<<>>)

\* The "Spatial Distribution" block, the angle range included.
SpatialBlock(ps) ==
    Sequentially(<<
        Say("spatial", <<>>),
        Printed("x_range", <<>>, Extent(Field(ps, "x"))),
        Printed("y_range", <<>>, Extent(Field(ps, "y"))),
        Printed("z_range", <<>>, Extent(Field(ps, "z"))),
        Printed("height_range", <<>>, Extent(Field(ps, "height"))),
        Printed("angle_range", <<>>, Extent(Field(ps, "angle")))>>)

print_statistics(ps, md) ==
    Sequentially(<<
        Say("rule", <<>>),
        Say("title", <<>>),
        Say("rule", <<>>),
        Say("total", <<md.total_leds>>),
        Say("tree_height", <<md.tree_height>>),
        IF md.num_cameras # 0 THEN Say("cameras", <<md.num_cameras>>)
                              ELSE Sequentially(<<>>),
        Printed("observed", <<md.num_observed>>,
                    PyDiv(100 * md.num_observed, md.total_leds)),
        Printed("predicted", <<md.num_predicted>>,
                    PyDiv(100 * md.num_predicted, md.total_leds)),
        ConfidenceBlock(Observed(ps)),
        SpatialBlock(ps),
        Say("rule", <<>>)>>)

-----------------------------------------------------------------------------
(* main *)

\* Variant: --save does not suppress the statistics.
PrintsStatisticsDespiteSave(a) == a.stats \/ ~a.projections

\* if args.stats or not (args.projections or args.save):
PrintsStatistics(a) == a.stats \/ ~(a.projections \/ Truthy(a.save))

\* Variant: --stats does not suppress the rendering.
RendersAlways(a) == TRUE

\* if not args.stats:
Renders(a) == ~a.stats

\* if args.projections:
RendersProjections(a) == a.projections

NoMetadata ==
    [total_leds |-> 0, tree_height |-> 0, num_cameras |-> 0,
     num_observed |-> 0, num_predicted |-> 0]

\* positions, metadata = load_led_positions(args.json_file), between its two prints.
MainLoad ==
    /\ pc = "load"
    /\ LET r == load_led_positions(file)
       IN IF r.raised # "none"
          THEN /\ pc' = "failed"
               /\ error' = r.raised
               /\ stdout' = Append(stdout, Line("Loading", <<>>))
               /\ calls' = Append(calls, "load_led_positions")
               /\ UNCHANGED <<positions, metadata>>
          ELSE /\ pc' = "stats"
               /\ positions' = r.value.positions
               /\ metadata' = r.value.metadata
               /\ stdout' = stdout \o <<Line("Loading", <<>>),
                                         Line("Loaded", <<Len(r.value.positions)>>)>>
               /\ calls' = calls \o <<"load_led_positions", "load_led_positions.return">>
               /\ UNCHANGED error
    /\ UNCHANGED <<args, file, files, fig>>

\* The statistics branch taken: print_statistics(positions, metadata).
MainPrintStatistics ==
    /\ pc = "stats"
    /\ PrintsStatistics(args)
    /\ LET r == print_statistics(positions, metadata)
       IN /\ stdout' = stdout \o r.lines
          /\ IF r.raised # "none"
             THEN /\ pc' = "failed"
                  /\ error' = r.raised
                  /\ calls' = Append(calls, "print_statistics")
             ELSE /\ pc' = "render"
                  /\ calls' = calls \o <<"print_statistics", "print_statistics.return">>
                  /\ UNCHANGED error
    /\ UNCHANGED <<args, file, positions, metadata, files, fig>>

\* The statistics branch not taken.
MainSkipStatistics ==
    /\ pc = "stats"
    /\ ~PrintsStatistics(args)
    /\ pc' = "render"
    /\ UNCHANGED <<args, file, error, positions, metadata, stdout, calls, files, fig>>

\* What a renderer did becomes the state of the run, and main returns.
Rendered(r) ==
    /\ fig' = r.fig
    /\ calls' = calls \o r.calls
    /\ files' = files \cup r.written
    /\ stdout' = stdout \o r.lines
    /\ pc' = "done"
    /\ UNCHANGED <<args, file, error, positions, metadata>>

\* visualize_3d(positions, metadata, args.confidence, args.save)
MainVisualize3D ==
    /\ pc = "render"
    /\ Renders(args)
    /\ ~RendersProjections(args)
    /\ Rendered(visualize_3d(positions, metadata, args.confidence, args.save))

\* visualize_2d_projections(positions, metadata, args.save)
MainVisualize2D ==
    /\ pc = "render"
    /\ Renders(args)
    /\ RendersProjections(args)
    /\ Rendered(visualize_2d_projections(positions, metadata, args.save))

\* --stats: main returns without rendering.
MainNoVisualization ==
    /\ pc = "render"
    /\ ~Renders(args)
    /\ pc' = "done"
    /\ UNCHANGED <<args, file, error, positions, metadata, stdout, calls, files, fig>>

-----------------------------------------------------------------------------
(* Inputs *)

SeqsUpTo(S, n) == UNION {[1..k -> S] : k \in 0..n}

\* The command lines: --save absent, --save "" and --save out.png.
CommandLines ==
    [confidence : BOOLEAN, save : {None, Some(""), Some("out.png")},
     projections : BOOLEAN, stats : BOOLEAN]

\* Well-formed position records.
Records(xs, confs, flags) ==
    [x : xs, y : {2}, z : {3}, height : {5}, angle : {90},
     confidence : confs, predicted : flags]

\* The parsed documents: any subset of the six keys, an absent key's field unused.
Documents(keysets, lists, totals) ==
    {[keys          |-> ks,
      positions     |-> IF "positions" \in ks THEN ps ELSE <<>>,
      total_leds    |-> IF "total_leds" \in ks THEN t ELSE 0,
      tree_height   |-> IF "tree_height" \in ks THEN 10 ELSE 0,
      num_cameras   |-> IF "num_cameras" \in ks THEN 3 ELSE 0,
      num_observed  |-> IF "num_observed" \in ks THEN 1 ELSE 0,
      num_predicted |-> IF "num_predicted" \in ks THEN 2 ELSE 0]
     : ks \in keysets, ps \in lists, t \in totals}

\* A file that cannot be opened or parsed.
Unreadable ==
    [readable |-> FALSE,
     data |-> [keys |-> {}, positions |-> <<>>, total_leds |-> 0, tree_height |-> 0,
               num_cameras |-> 0, num_observed |-> 0, num_predicted |-> 0]]

Fresh ==
    /\ pc = "load"
    /\ error = "none"
    /\ positions = <<>>
    /\ metadata = NoMetadata
    /\ stdout = <<>>
    /\ calls = <<>>
    /\ files = {}
    /\ fig = NoFigure

Init ==
    /\ args \in CommandLines
    /\ file \in {Unreadable} \cup
           {[readable |-> TRUE, data |-> d] :
               d \in Documents(SUBSET (RequiredKeys \cup OptionalKeys),
                               SeqsUpTo(Records({-1, 1}, {9}, BOOLEAN), MaxLen), {0, 2})}
    /\ Fresh

Next ==
    \/ MainLoad
    \/ MainPrintStatistics
    \/ MainSkipStatistics
    \/ MainVisualize3D
    \/ MainVisualize2D
    \/ MainNoVisualization

Spec == Init /\ [][Next]_vars

\* Observed records of confidence 0.2, 0.5, 0.8, 0.9 and 1.0, and predicted
\* records, whose confidence (here 1.0) must not count.
StatsRecords ==
    Records({1}, {2, 5, 8, 9, 10}, {FALSE}) \cup Records({1}, {10}, {TRUE})

\* Runs of `visualize.py FILE --stats` on complete documents with richer confidences.
InitStats ==
    /\ args \in {a \in CommandLines : a.stats /\ ~a.confidence /\ ~a.projections /\ a.save = None}
    /\ file \in {[readable |-> TRUE, data |-> d] :
                    d \in Documents({RequiredKeys \cup OptionalKeys},
                                    SeqsUpTo(StatsRecords, MaxStatsLen), {5})}
    /\ Fresh

NextStats ==
    \/ MainLoad
    \/ MainPrintStatistics
    \/ MainNoVisualization

SpecStats == InitStats /\ [][NextStats]_vars

-----------------------------------------------------------------------------
(* Vocabulary of the properties *)

Occurrences(s, v) == Cardinality({i \in 1..Len(s) : s[i] = v})

Called(f) == Occurrences(calls, f) > 0

Terminated == pc \in {"done", "failed"}

LoadReturned == Called("load_led_positions.return")

RendererCalled == Called("visualize_3d") \/ Called("visualize_2d_projections")

NothingRendered ==
    /\ ~RendererCalled
    /\ ~Called("plt.show")
    /\ ~Called("plt.savefig")
    /\ fig = NoFigure
    /\ files = {}

DefaultInvocation ==
    ~args.confidence /\ ~args.projections /\ ~args.stats /\ args.save = None

\* The first place of v in s, 0 if it has none.
FirstIndex(s, v) ==
    IF \E i \in 1..Len(s) : s[i] = v
    THEN CHOOSE i \in 1..Len(s) : s[i] = v /\ \A j \in 1..(i - 1) : s[j] # v
    ELSE 0

Tags == {stdout[i].tag : i \in 1..Len(stdout)}

\* The places of the observed records of the loaded list.
ObservedPlaces == {i \in 1..Len(positions) : positions[i].predicted = FALSE}

-----------------------------------------------------------------------------
(* C1 *)

\* C1 as stated, PATH read as a non-empty path: in a run of main that returns,
\* passing --save PATH means that plt.show was never called and a file exists at
\* PATH, whatever the other flags; not passing --save means no file was written.
C1_SaveAlwaysWritesFile ==
    pc = "done" =>
        /\ Truthy(args.save) => ~Called("plt.show") /\ args.save[1] \in files
        /\ args.save = None => files = {}

\* C1 amended: --save with a non-empty PATH never leads to plt.show, and writes
\* exactly PATH when --stats is absent and main returns; with --stats nothing is
\* written or shown; --save with an empty PATH is displayed like no --save at
\* all; without --save no file is ever written.
C1_SaveBranching ==
    /\ Truthy(args.save) => ~Called("plt.show")
    /\ (pc = "done" /\ Truthy(args.save) /\ ~args.stats) => files = {args.save[1]}
    /\ ~Truthy(args.save) => files = {}
    /\ (pc = "done" /\ ~Truthy(args.save) /\ ~args.stats) => Called("plt.show")
    /\ args.stats => files = {} /\ ~Called("plt.show")

C1_Witness ==
    /\ pc = "done"
    /\ args.save = Some("out.png")
    /\ args.projections /\ args.confidence /\ ~args.stats
    /\ files = {"out.png"}
    /\ Called("plt.savefig")

-----------------------------------------------------------------------------
(* C2 *)

\* C2: with --stats, print_statistics is entered at most once, and exactly once
\* as soon as main has passed its statistics branch; no renderer is ever called,
\* nothing is displayed and nothing is saved, whatever the other flags.
C2_StatsOnly ==
    args.stats =>
        /\ NothingRendered
        /\ Occurrences(calls, "print_statistics") <= 1
        /\ (LoadReturned /\ pc # "stats") => Occurrences(calls, "print_statistics") = 1
        /\ pc = "done" => Occurrences(calls, "print_statistics.return") = 1

C2_Witness ==
    /\ args.stats /\ args.projections /\ args.confidence
    /\ args.save = Some("out.png")
    /\ pc = "done"
    /\ Occurrences(calls, "print_statistics") = 1

-----------------------------------------------------------------------------
(* C3 *)

\* The loader is the first call of every run, and a renderer starts only after
\* print_statistics has returned.
StagesInOrder ==
    /\ calls # <<>> => calls[1] = "load_led_positions"
    /\ \A r \in {"visualize_3d", "visualize_2d_projections"} :
          (Called("print_statistics") /\ Called(r)) =>
              /\ Called("print_statistics.return")
              /\ FirstIndex(calls, "print_statistics.return") < FirstIndex(calls, r)

\* A default invocation that returns printed the statistics, then showed the 3D
\* view, and neither drew projections nor saved a file.
DefaultShows3D ==
    (DefaultInvocation /\ pc = "done") =>
        /\ calls = <<"load_led_positions", "load_led_positions.return",
                     "print_statistics", "print_statistics.return",
                     "visualize_3d", "draw_cone_outline", "plt.show">>
        /\ fig.kind = "3d"
        /\ files = {}

\* C3 as stated: once main is past its statistics branch, print_statistics was
\* called exactly when --stats was given or neither --projections nor --save was.
C3_StatsIffNoSaveOption ==
    /\ StagesInOrder
    /\ DefaultShows3D
    /\ pc \in {"render", "done"} =>
          (Called("print_statistics") <=>
              (args.stats \/ (~args.projections /\ args.save = None)))

\* C3 amended: print_statistics was called exactly when --stats was given or
\* neither --projections nor a non-empty --save path was (an empty path counts as
\* no --save); the order of the stages and the default invocation are as stated.
C3_StageSelection ==
    /\ StagesInOrder
    /\ DefaultShows3D
    /\ (LoadReturned /\ pc # "stats") =>
          (Called("print_statistics") <=>
              (args.stats \/ (~args.projections /\ args.save \in {None, Some("")})))

C3_Witness ==
    /\ DefaultInvocation
    /\ pc = "done"
    /\ Called("print_statistics.return")
    /\ Called("plt.show")

-----------------------------------------------------------------------------
(* C4 *)

\* C4: once the loader has run on a parsed document, either a required key is
\* absent and the run ended in a KeyError with no pair returned, nothing of the
\* statistics printed and nothing rendered, or all three are present and the
\* loader returned the document's positions list as it is, with each optional
\* count equal to the document's value, 0 for an absent one.
C4_LoaderKeys ==
    (file.readable /\ pc # "load") =>
        IF RequiredKeys \subseteq file.data.keys
        THEN /\ LoadReturned
             /\ positions = file.data.positions
             /\ metadata.total_leds = file.data.total_leds
             /\ metadata.tree_height = file.data.tree_height
             /\ \A k \in OptionalKeys :
                   metadata[k] = IF k \in file.data.keys THEN file.data[k] ELSE 0
        ELSE /\ pc = "failed" /\ error = "KeyError"
             /\ ~LoadReturned
             /\ positions = <<>> /\ metadata = NoMetadata
             /\ ~Called("print_statistics")
             /\ Tags = {"Loading"}
             /\ NothingRendered

C4_Witness ==
    /\ LoadReturned
    /\ file.data.keys = RequiredKeys \cup {"num_observed"}
    /\ Len(positions) = 2 /\ positions[1] # positions[2]
    /\ metadata.num_cameras = 0 /\ metadata.num_observed = 1 /\ metadata.num_predicted = 0

-----------------------------------------------------------------------------
(* C5 *)

\* C5 as stated: every run on a loadable dataset whose total_leds is 0 ends in a
\* ZeroDivisionError, with nothing displayed and nothing saved.
C5_ZeroTotalAlwaysFatal ==
    (LoadReturned /\ metadata.total_leds = 0 /\ Terminated) =>
        /\ pc = "failed" /\ error = "ZeroDivisionError"
        /\ NothingRendered

\* C5 amended: a run on a loadable dataset whose total_leds is 0 ends in a
\* ZeroDivisionError of print_statistics, before the percentage lines and with
\* nothing displayed or saved, exactly when print_statistics runs (--stats, or
\* neither --projections nor a non-empty --save path); a failed run takes no
\* further step; a run that skips the statistics renders and returns.
C5_ZeroTotalFatalInStatistics ==
    (LoadReturned /\ metadata.total_leds = 0 /\ Terminated) =>
        IF args.stats \/ (~args.projections /\ args.save \in {None, Some("")})
        THEN /\ pc = "failed" /\ error = "ZeroDivisionError"
             /\ Called("print_statistics") /\ ~Called("print_statistics.return")
             /\ "observed" \notin Tags /\ "predicted" \notin Tags
             /\ NothingRendered
             /\ ~ENABLED Next
        ELSE /\ pc = "done" /\ error = "none"
             /\ ~Called("print_statistics")
             /\ RendererCalled

C5_Witness ==
    /\ DefaultInvocation
    /\ LoadReturned /\ metadata.total_leds = 0 /\ Len(positions) = 2
    /\ pc = "failed" /\ error = "ZeroDivisionError"

-----------------------------------------------------------------------------
(* C6 *)

\* C6: the cone outline of a 3D figure (num_points = 50) has two circles and
\* exactly eight connecting segments, each from bottom sample i to top sample i,
\* at the multiples of 50 // 8 = 6 within 0..49.
C6_EightConeLines ==
    fig.kind = "3d" =>
        /\ Len(fig.cone.circles) = 2
        /\ Len(fig.cone.segments) = 8
        /\ \A k \in 1..Len(fig.cone.segments) :
              LET g == fig.cone.segments[k]
              IN /\ g.bottom = g.top
                 /\ g.bottom \in 0..(DefaultNumPoints - 1)
                 /\ g.bottom % (DefaultNumPoints \div 8) = 0

-----------------------------------------------------------------------------
(* C7 *)

\* obs and pred split the list all: each holds only records of its kind, and
\* every record value occurs in the two together as often as in all.
Splits(obs, pred, all) ==
    /\ \A i \in 1..Len(obs) : obs[i].predicted = FALSE
    /\ \A i \in 1..Len(pred) : pred[i].predicted = TRUE
    /\ Len(obs) + Len(pred) = Len(all)
    /\ \A r \in SeqToSet(all) \cup SeqToSet(obs) \cup SeqToSet(pred) :
          Occurrences(obs, r) + Occurrences(pred, r) = Occurrences(all, r)

\* The blue and red markers of one panel are the projections of the observed and
\* of the predicted records, each record drawn once.
PanelSplits(blue, red, a, b) ==
    /\ Len(blue.pts) = Cardinality(ObservedPlaces)
    /\ Len(blue.pts) + Len(red.pts) = Len(positions)
    /\ \A v \in SeqToSet(blue.pts) \cup SeqToSet(red.pts)
                \cup {<<positions[i][a], positions[i][b]>> : i \in 1..Len(positions)} :
          /\ Occurrences(blue.pts, v)
               = Cardinality({i \in ObservedPlaces : <<positions[i][a], positions[i][b]>> = v})
          /\ Occurrences(red.pts, v)
               = Cardinality({i \in (1..Len(positions)) \ ObservedPlaces :
                                 <<positions[i][a], positions[i][b]>> = v})

\* C7: the observed and predicted subsets of visualize_3d, the observed subset of
\* print_statistics (the size shown on its mean line) and the per-panel filters
\* of visualize_2d_projections split the positions list: disjoint, every record
\* once, sizes adding up to len(positions); and the loaded list stays the
\* document's list through all three functions.
C7_Partition ==
    /\ LoadReturned => positions = file.data.positions
    /\ fig.kind = "3d" =>
          /\ Splits(fig.observed, fig.predicted, positions)
          /\ fig.scatters[1].pts = Points3(fig.observed)
          /\ Len(fig.scatters) = (IF fig.predicted = <<>> THEN 1 ELSE 2)
          /\ Len(fig.scatters) = 2 => fig.scatters[2].pts = Points3(fig.predicted)
    /\ fig.kind = "2d" =>
          /\ PanelSplits(fig.scatters[1], fig.scatters[2], "x", "y")
          /\ PanelSplits(fig.scatters[3], fig.scatters[4], "x", "z")
          /\ PanelSplits(fig.scatters[5], fig.scatters[6], "y", "z")
    /\ Called("print_statistics.return") =>
          IF ObservedPlaces = {} THEN "mean" \notin Tags
          ELSE \E i \in 1..Len(stdout) :
                  stdout[i].tag = "mean" /\ stdout[i].vals[2] = Cardinality(ObservedPlaces)

C7_Witness ==
    /\ fig.kind = "3d"
    /\ Called("print_statistics.return")
    /\ Len(positions) = 2
    /\ Len(fig.observed) = 1 /\ Len(fig.predicted) = 1
    /\ positions[1].predicted

-----------------------------------------------------------------------------
(* C8 *)

\* The confidences of the observed records of the loaded list, in order.
RECURSIVE ObservedConfidencesUpTo(_)
ObservedConfidencesUpTo(n) ==
    IF n = 0 THEN <<>>
    ELSE IF positions[n].predicted
         THEN ObservedConfidencesUpTo(n - 1)
         ELSE Append(ObservedConfidencesUpTo(n - 1), positions[n].confidence)

ObservedConfidences == ObservedConfidencesUpTo(Len(positions))

RECURSIVE Total(_, _)
Total(s, n) == IF n = 0 THEN 0 ELSE s[n] + Total(s, n - 1)

\* The numbers of the printed line with this tag.
Shown(tag) == stdout[FirstIndex(Field(stdout, "tag"), tag)].vals

HasLine(tag) == tag \in Tags

\* C8: when print_statistics has returned and some record is observed, the mean
\* line is the sum of the observed confidences over their number, the min and
\* max lines are their least and greatest, and the high-confidence line counts
\* the observed confidences strictly above 0.8 and divides 100 times that count
\* by the number of observed records; [0.2, 0.5, 0.9, 1.0] gives 0.65, 0.2,
\* 1.0, 2 and 50%.
C8_ConfidenceStatistics ==
    (Called("print_statistics.return") /\ ObservedPlaces # {}) =>
        LET c == ObservedConfidences
            n == Len(c)
            high == Cardinality({i \in 1..n : c[i] >= HighConfidence + 1})
        IN /\ HasLine("mean") /\ HasLine("min") /\ HasLine("max") /\ HasLine("high")
           /\ Shown("mean") = <<Total(c, n), n>>
           /\ Shown("min")[1] \in SeqToSet(c) /\ \A i \in 1..n : Shown("min")[1] <= c[i]
           /\ Shown("max")[1] \in SeqToSet(c) /\ \A i \in 1..n : Shown("max")[1] >= c[i]
           /\ Shown("high") = <<high, 100 * high, n>>
           /\ c = <<2, 5, 9, 10>> =>
                 /\ Shown("mean")[1] * 100 = 65 * 10 * Shown("mean")[2]
                 /\ Shown("min") = <<2>> /\ Shown("max") = <<10>>
                 /\ Shown("high")[1] = 2
                 /\ Shown("high")[2] = 50 * Shown("high")[3]

C8_Witness ==
    /\ Called("print_statistics.return")
    /\ Len(positions) = 4
    /\ ObservedConfidences = <<2, 5, 9, 10>>
    /\ Shown("high") = <<2, 200, 4>>

C8_WitnessMixed ==
    /\ Called("print_statistics.return")
    /\ Len(positions) = 4
    /\ ObservedConfidences = <<8, 9>>
    /\ positions[1].predicted /\ positions[1].confidence = 10
    /\ Shown("high") = <<1, 100, 2>>

-----------------------------------------------------------------------------
(* C9 *)

\* C9: when print_statistics runs on a list without observed records and
\* total_leds is not 0, it prints no line of the confidence block, and the line
\* after the predicted-percentage line is the spatial distribution header; the
\* run does not fail in the confidence block.
C9_ConfidenceBlockSkipped ==
    (Called("print_statistics") /\ ObservedPlaces = {} /\ metadata.total_leds # 0) =>
        /\ Tags \cap {"confidence", "mean", "min", "max", "high"} = {}
        /\ HasLine("predicted")
        /\ Len(stdout) > FirstIndex(Field(stdout, "tag"), "predicted")
        /\ stdout[FirstIndex(Field(stdout, "tag"), "predicted") + 1].tag = "spatial"
        /\ positions # <<>> => Called("print_statistics.return")

C9_Witness ==
    /\ Called("print_statistics.return")
    /\ Len(positions) = 2
    /\ positions[1].predicted /\ positions[2].predicted
    /\ metadata.total_leds # 0
    /\ HasLine("angle_range")

-----------------------------------------------------------------------------
(* C10 *)

StatisticsLines == SubSeq(stdout, 3, Len(stdout))

\* C10: print_statistics returns exactly when total_leds is not 0 and the list is
\* not empty, its last line then being the closing rule. On an empty list with
\* total_leds not 0 it fails with a ValueError right after the spatial header,
\* the totals and both percentage lines already printed, and in the default
\* invocation nothing is rendered. A run that skips the statistics renders an
\* empty list and returns.
C10_StatisticsCompletion ==
    /\ Called("print_statistics") =>
          /\ Called("print_statistics.return")
                <=> (metadata.total_leds # 0 /\ positions # <<>>)
          /\ Called("print_statistics.return") =>
                stdout[Len(stdout)].tag \in {"rule", "Saved visualization", "Saved projections"}
                /\ Occurrences(Field(stdout, "tag"), "rule") = 3
          /\ (metadata.total_leds # 0 /\ positions = <<>>) =>
                /\ pc = "failed" /\ error = "ValueError"
                /\ Field(StatisticsLines, "tag") \in
                      {<<"rule", "title", "rule", "total", "tree_height",
                         "observed", "predicted", "spatial">>,
                       <<"rule", "title", "rule", "total", "tree_height", "cameras",
                         "observed", "predicted", "spatial">>}
                /\ NothingRendered
    /\ (LoadReturned /\ positions = <<>> /\ Terminated /\ ~Called("print_statistics")) =>
          /\ pc = "done" /\ error = "none"
          /\ RendererCalled
          /\ \A k \in 1..Len(fig.scatters) : fig.scatters[k].pts = <<>>

C10_Witness ==
    /\ DefaultInvocation
    /\ LoadReturned /\ positions = <<>> /\ metadata.total_leds # 0
    /\ pc = "failed" /\ error = "ValueError"
    /\ stdout[Len(stdout)].tag = "spatial"

====
